---------------------------- MODULE Spec2Model ----------------------------
(***************************************************************************)
(* Model of simplex_method (algorithms/simplex/simplex_method.py): a       *)
(* Nelder-Mead style direct search over a penalty-augmented objective.     *)
(*                                                                         *)
(* Numbers.  Coordinates are reals of the form k / Scale and are kept as   *)
(* the integer k.  With d <= 2 every mean (division by d) and every        *)
(* contraction (division by 2) of the first MaxIter iterations is exact on *)
(* this lattice, as it is in binary floating point.  Objective and         *)
(* constraint functions are black boxes; the ones enumerated here are      *)
(* integer valued on the lattice.                                          *)
(***************************************************************************)
EXTENDS Integers, Sequences, FiniteSets, TLC

VARIABLES
    f, x0, bounds, max_iter, constraints,      \* the arguments of the call
    x_nodes, f_nodes,                          \* simplex and cached values
    f_eval_count,
    f_store, g_store, x_store,                 \* per-iteration traces
    f_best_so_far, x_best_so_far, g_best_so_far,
    i, its,                                    \* loop indices (0-based)
    pc,                                        \* "eval", "loop", "done", "raised"
    sorted_nodes,                              \* locals of the last iteration
    sorted_from,                               \* the values sorted_nodes ranks
    branch, x_reflected, f_reflected,
    x_expanded, f_expanded, x_contracted, f_contracted,
    output_dict,
    aug_calls, f_calls,                        \* calls received by aug_obj and by f
    rows_written                               \* per trace, per row: iterations that stored it

vars == << f, x0, bounds, max_iter, constraints, x_nodes, f_nodes,
           f_eval_count, f_store, g_store, x_store, f_best_so_far,
           x_best_so_far, g_best_so_far, i, its, pc, sorted_nodes, sorted_from,
           branch,
           x_reflected, f_reflected, x_expanded, f_expanded,
           x_contracted, f_contracted, output_dict,
           aug_calls, f_calls, rows_written >>

-----------------------------------------------------------------------------
(* Bounds of the model *)

MaxIter == 3

Dims == {1, 2}

\* lattice denominator: one factor 2*d (mean, then halving) per iteration
Scale == (2 * 2) ^ MaxIter

\* values of the standard normal deviate sampled for each coordinate
ZSamples == {-1, 1}

-----------------------------------------------------------------------------
(* Vectors *)

Traces == {"f_store", "g_store", "x_store",
           "f_best_so_far", "g_best_so_far", "x_best_so_far"}

RECURSIVE SumSeq(_)
SumSeq(s) == IF s = << >> THEN 0 ELSE Head(s) + SumSeq(Tail(s))

Abs(a) == IF a < 0 THEN -a ELSE a

Max0(a) == IF a > 0 THEN a ELSE 0

Zeros(n) == [k \in 1..n |-> 0]

ZeroRows(n, m) == [k \in 1..n |-> Zeros(m)]

-----------------------------------------------------------------------------
(* The caller's objective and constraint functions *)

Objectives == {"abs", "sum", "floor", "partial"}

Constraints == {"wall", "ramp", "free"}

ConstraintLists == { << >>, << "wall" >>, << "ramp", "free" >> }

\* "partial" raises outside its domain (first coordinate 2 or more)
Defined(fn, x) == fn = "partial" => x[1] < 2 * Scale

f_value(fn, x) ==
    CASE fn = "abs"     -> SumSeq([j \in 1..Len(x) |-> Abs(x[j])])
      [] fn = "sum"     -> SumSeq(x)
      [] fn = "floor"   -> SumSeq([j \in 1..Len(x) |-> x[j] \div Scale])
      [] fn = "partial" -> SumSeq([j \in 1..Len(x) |-> Abs(x[j] - Scale)])

g_value(gn, x) ==
    CASE gn = "wall" -> IF x[1] < 2 * Scale THEN 3 ELSE -1
      [] gn = "ramp" -> x[1] \div Scale
      [] gn = "free" -> -1

-----------------------------------------------------------------------------
(* PenaltyFunctions(f, constraints, type_penalty='l2', mu=100) *)

mu == 100

\* aug_obj(x) = f(x) + mu * sum_i max(0, g_i(x))^2; one call evaluates f once
\* and each g_i once (f_calls and aug_calls count the calls received)
aug_obj(x) ==
    f_value(f, x)
      + mu * SumSeq([k \in 1..Len(constraints) |->
                        Max0(g_value(constraints[k], x)) * Max0(g_value(constraints[k], x))])

-----------------------------------------------------------------------------
(* Locals of simplex_method *)

d == Len(x0)

con_d == Len(constraints)

\* f_range = (bounds[:,1] - bounds[:,0]) * 0.1
f_range(b) == [j \in 1..Len(b) |-> ((b[j][2] - b[j][1]) * Scale) \div 10]

\* np.random.normal(x0, f_range, (d+1, d)): loc + scale * z per coordinate
NormalDraws(loc, scale) ==
    LET n == Len(loc)
        coord(j) == { loc[j] + scale[j] * z : z \in ZSamples }
        points == { p \in [1..n -> UNION { coord(j) : j \in 1..n }] :
                      \A j \in 1..n : p[j] \in coord(j) }
    IN  [1..(n + 1) -> points]

\* np.argsort(f_nodes[:,0]): an ascending order of the vertex indices.  The
\* order among equal values is left to the sorting routine, which is a
\* function of the values: the same values are ranked the same way again
Orders == [n \in { m + 1 : m \in Dims } |-> Permutations(1..n)]

ArgSorts(fn) ==
    { p \in Orders[Len(fn)] :
        \A a, b \in 1..Len(fn) : a < b => fn[p[a]] <= fn[p[b]] }

SortedNodes ==
    IF sorted_nodes # << >> /\ sorted_from = f_nodes
    THEN {sorted_nodes}
    ELSE ArgSorts(f_nodes)

\* np.mean(best_nodes, axis=0), best_nodes = x_nodes[sorted_nodes[:-1]]
centroid(s) ==
    [j \in 1..d |-> SumSeq([k \in 1..d |-> x_nodes[s[k]][j]]) \div d]

\* x_nodes[sorted_nodes[-1],:]
worst(s) == x_nodes[s[d + 1]]

\* centroid + (centroid - x_nodes[sorted_nodes[-1],:])
Reflected(c, w) == [j \in 1..Len(c) |-> c[j] + (c[j] - w[j])]

\* centroid + 2*(x_reflected - centroid)
Expanded(c, xr) == [j \in 1..Len(c) |-> c[j] + 2 * (xr[j] - c[j])]

\* centroid + 0.5*(x_nodes[sorted_nodes[-1],:] - centroid)
Contracted(c, w) == [j \in 1..Len(c) |-> c[j] + (w[j] - c[j]) \div 2]

\* f_eval_count += 1 (lines 66, 101, 111, 121)
Counted_Skip(n) == n

Counted(n) == n + 1

\* line 77: f_aug.f(best_node), the objective itself and not the penalised one
TraceValue_Penalised(x) == aug_obj(x)

TraceValue(x) == f_value(f, x)

\* line 91: the previous best-so-far row is copied forward
KeepIncumbent_Inverted(cur, prev) == cur < prev

KeepIncumbent_OnTie(cur, prev) == cur >= prev

KeepIncumbent(cur, prev) == cur > prev

\* lines 103-104: accept the reflected point
AcceptReflection_Inclusive(fr, s) == fr < f_nodes[s[d]] /\ fr >= f_nodes[s[1]]

AcceptReflection(fr, s) == fr < f_nodes[s[d]] /\ fr > f_nodes[s[1]]

\* line 108: try the expansion
TryExpansion(fr, s) == fr < f_nodes[s[1]]

\* line 112
AcceptExpansion_Always(fe, fr) == TRUE

AcceptExpansion(fe, fr) == fe < fr

\* line 122
AcceptContraction_OnTie(fc, s) == fc <= f_nodes[s[d + 1]]

AcceptContraction(fc, s) == fc < f_nodes[s[d + 1]]

\* for its in range(max_iter)
LoopRuns_StopsEarly == pc = "loop" /\ its < max_iter - 1

LoopRuns == pc = "loop" /\ its < max_iter

-----------------------------------------------------------------------------
(* Inputs of the call *)

\* no iteration, a single one, the longest run
MaxIters == {0, 1, MaxIter}

X0s(n) == { [j \in 1..n |-> c] : c \in {0, Scale} }

\* every dimension with the same pair: zero width, or width 10
BoundsSets(n) == { [j \in 1..n |-> b] : b \in { <<0, 0>>, <<-5, 5>> } }

Init ==
    /\ f \in Objectives
    /\ constraints \in ConstraintLists
    /\ max_iter \in MaxIters
    /\ \E n \in Dims :
          /\ x0 \in X0s(n)
          /\ bounds \in BoundsSets(n)
    /\ x_nodes \in NormalDraws(x0, f_range(bounds))          \* line 52
    /\ f_nodes = Zeros(Len(x0) + 1)                          \* line 53
    /\ f_eval_count = 0
    /\ f_store = Zeros(max_iter)
    /\ g_store = ZeroRows(max_iter, Len(constraints))
    /\ x_store = ZeroRows(max_iter, Len(x0))
    /\ f_best_so_far = Zeros(max_iter)
    /\ x_best_so_far = ZeroRows(max_iter, Len(x0))
    /\ g_best_so_far = ZeroRows(max_iter, Len(constraints))
    /\ i = 0
    /\ its = 0
    /\ pc = "eval"
    /\ sorted_nodes = << >>
    /\ sorted_from = << >>
    /\ branch = "none"
    /\ x_reflected = << >> /\ f_reflected = 0
    /\ x_expanded = << >> /\ f_expanded = 0
    /\ x_contracted = << >> /\ f_contracted = 0
    /\ output_dict = << >>
    /\ aug_calls = 0
    /\ f_calls = 0
    /\ rows_written = [t \in Traces |-> Zeros(max_iter)]

-----------------------------------------------------------------------------
(* Lines 64-66: evaluate the initial vertices *)

inputs == << f, x0, bounds, max_iter, constraints >>

traces == << f_store, g_store, x_store, f_best_so_far, x_best_so_far,
             g_best_so_far, rows_written >>

locals == << sorted_nodes, sorted_from, branch, x_reflected, f_reflected, x_expanded,
             f_expanded, x_contracted, f_contracted >>

EvalNode ==
    /\ pc = "eval"
    /\ Defined(f, x_nodes[i + 1])
    /\ f_nodes' = [f_nodes EXCEPT ![i + 1] = aug_obj(x_nodes[i + 1])]
    /\ f_eval_count' = Counted(f_eval_count)
    /\ aug_calls' = aug_calls + 1
    /\ f_calls' = f_calls + 1
    /\ i' = i + 1
    /\ pc' = IF i + 1 = d + 1 THEN "loop" ELSE "eval"
    /\ UNCHANGED << inputs, traces, locals, x_nodes, its, output_dict >>

\* f raises inside aug_obj: the exception leaves simplex_method
EvalRaise ==
    /\ pc = "eval"
    /\ ~Defined(f, x_nodes[i + 1])
    /\ aug_calls' = aug_calls + 1
    /\ f_calls' = f_calls + 1
    /\ pc' = "raised"
    /\ UNCHANGED << inputs, traces, locals, x_nodes, f_nodes, f_eval_count,
                    i, its, output_dict >>

-----------------------------------------------------------------------------
(* Lines 69-124: one iteration of the search loop *)

\* lines 75-94: the rows of iteration `its` (0-based) are rows its + 1 here
RecordTrace(s) ==
    LET best_node == x_nodes[s[1]]
        fx == TraceValue(best_node)
        gx == [k \in 1..con_d |-> g_value(constraints[k], best_node)]
        keep == its # 0 /\ KeepIncumbent(fx, f_best_so_far[its])
    IN  /\ x_store' = [x_store EXCEPT ![its + 1] = best_node]
        /\ f_store' = [f_store EXCEPT ![its + 1] = fx]
        /\ g_store' = [g_store EXCEPT ![its + 1] = gx]
        /\ f_best_so_far' = [f_best_so_far EXCEPT
                                ![its + 1] = IF keep THEN f_best_so_far[its] ELSE fx]
        /\ x_best_so_far' = [x_best_so_far EXCEPT
                                ![its + 1] = IF keep THEN x_best_so_far[its] ELSE best_node]
        /\ g_best_so_far' = [g_best_so_far EXCEPT
                                ![its + 1] = IF keep THEN g_best_so_far[its] ELSE gx]
        /\ rows_written' = [t \in Traces |->
                                [rows_written[t] EXCEPT ![its + 1] = @ + 1]]

\* x_nodes[sorted_nodes[-1],:] = x ; f_nodes[sorted_nodes[-1],:] = fx
ReplaceWorst_StaleCache(s, x, fx) ==
    /\ x_nodes' = [x_nodes EXCEPT ![s[d + 1]] = x]
    /\ f_nodes' = f_nodes

ReplaceWorst(s, x, fx) ==
    /\ x_nodes' = [x_nodes EXCEPT ![s[d + 1]] = x]
    /\ f_nodes' = [f_nodes EXCEPT ![s[d + 1]] = fx]

\* lines 99-124: the arm of the if / elif / else the iteration takes, or
\* "raise" when f raises at the reflected or at the second trial point
Branch(s) ==
    LET xr == Reflected(centroid(s), worst(s))
        fr == aug_obj(xr)
    IN  IF ~Defined(f, xr) THEN "raise"
        ELSE IF AcceptReflection(fr, s) THEN "reflect"
        ELSE IF TryExpansion(fr, s)
             THEN IF Defined(f, Expanded(centroid(s), xr)) THEN "expand" ELSE "raise"
             ELSE IF Defined(f, Contracted(centroid(s), worst(s)))
                  THEN "contract" ELSE "raise"

\* lines 103-106, the vertices ranked in the order s
IterReflectAt(s) ==
    LET xr == Reflected(centroid(s), worst(s))
        fr == aug_obj(xr)
    IN  /\ Branch(s) = "reflect"
        /\ RecordTrace(s)
        /\ ReplaceWorst(s, xr, fr)
        /\ sorted_nodes' = s /\ sorted_from' = f_nodes
        /\ x_reflected' = xr /\ f_reflected' = fr
        /\ branch' = "reflect"
        /\ f_eval_count' = Counted(f_eval_count)
        /\ aug_calls' = aug_calls + 1
        /\ f_calls' = f_calls + 2
        /\ its' = its + 1
        /\ UNCHANGED << inputs, x_expanded, f_expanded, x_contracted,
                        f_contracted, i, pc, output_dict >>

IterReflect == LoopRuns /\ \E s \in SortedNodes : IterReflectAt(s)

\* lines 108-117
IterExpandAt(s) ==
    LET xr == Reflected(centroid(s), worst(s))
        fr == aug_obj(xr)
        xe == Expanded(centroid(s), xr)
        fe == aug_obj(xe)
    IN  /\ Branch(s) = "expand"
        /\ RecordTrace(s)
        /\ IF AcceptExpansion(fe, fr)
             THEN ReplaceWorst(s, xe, fe)
             ELSE ReplaceWorst(s, xr, fr)
        /\ sorted_nodes' = s /\ sorted_from' = f_nodes
        /\ x_reflected' = xr /\ f_reflected' = fr
        /\ x_expanded' = xe /\ f_expanded' = fe
        /\ branch' = "expand"
        /\ f_eval_count' = Counted(Counted(f_eval_count))
        /\ aug_calls' = aug_calls + 2
        /\ f_calls' = f_calls + 3
        /\ its' = its + 1
        /\ UNCHANGED << inputs, x_contracted, f_contracted, i, pc, output_dict >>

IterExpand == LoopRuns /\ \E s \in SortedNodes : IterExpandAt(s)

\* lines 118-124
IterContractAt(s) ==
    LET xr == Reflected(centroid(s), worst(s))
        fr == aug_obj(xr)
        xc == Contracted(centroid(s), worst(s))
        fc == aug_obj(xc)
    IN  /\ Branch(s) = "contract"
        /\ RecordTrace(s)
        /\ IF AcceptContraction(fc, s)
             THEN ReplaceWorst(s, xc, fc)
             ELSE UNCHANGED << x_nodes, f_nodes >>
        /\ sorted_nodes' = s /\ sorted_from' = f_nodes
        /\ x_reflected' = xr /\ f_reflected' = fr
        /\ x_contracted' = xc /\ f_contracted' = fc
        /\ branch' = "contract"
        /\ f_eval_count' = Counted(Counted(f_eval_count))
        /\ aug_calls' = aug_calls + 2
        /\ f_calls' = f_calls + 3
        /\ its' = its + 1
        /\ UNCHANGED << inputs, x_expanded, f_expanded, i, pc, output_dict >>

IterContract == LoopRuns /\ \E s \in SortedNodes : IterContractAt(s)

\* f raises at a trial point: the exception leaves simplex_method, no result
IterRaiseAt(s) ==
    /\ Branch(s) = "raise"
    /\ IF Defined(f, Reflected(centroid(s), worst(s)))
         THEN aug_calls' = aug_calls + 2 /\ f_calls' = f_calls + 3
         ELSE aug_calls' = aug_calls + 1 /\ f_calls' = f_calls + 2
    /\ pc' = "raised"
    /\ UNCHANGED << inputs, traces, locals, x_nodes, f_nodes, f_eval_count,
                    i, its, output_dict >>

IterRaise == LoopRuns /\ \E s \in SortedNodes : IterRaiseAt(s)

\* lines 127-135
Return ==
    /\ pc = "loop"
    /\ ~LoopRuns
    /\ output_dict' = [g_store |-> g_store, x_store |-> x_store,
                       f_store |-> f_store, g_best_so_far |-> g_best_so_far,
                       x_best_so_far |-> x_best_so_far,
                       f_best_so_far |-> f_best_so_far,
                       N_evals |-> f_eval_count]
    /\ pc' = "done"
    /\ UNCHANGED << inputs, traces, locals, x_nodes, f_nodes, f_eval_count,
                    i, its, aug_calls, f_calls >>

Next ==
    \/ EvalNode
    \/ EvalRaise
    \/ IterReflect
    \/ IterExpand
    \/ IterContract
    \/ IterRaise
    \/ Return

Spec == Init /\ [][Next]_vars

-----------------------------------------------------------------------------
(* Properties *)

\* one pass of the loop body has run
IterStep == its' = its + 1

RECURSIVE MinPrefix(_, _)
MinPrefix(seq, r) ==
    IF r = 1 THEN seq[1]
    ELSE IF seq[r] < MinPrefix(seq, r - 1) THEN seq[r] ELSE MinPrefix(seq, r - 1)

\* C1: every recorded f_best_so_far[i] is the minimum of f_store[0..i], hence
\* f_best_so_far never increases from one iteration to the next.
C1_BestSoFarIsRunningMin ==
    \A r \in 1..its :
        /\ f_best_so_far[r] = MinPrefix(f_store, r)
        /\ r >= 2 => f_best_so_far[r] <= f_best_so_far[r - 1]

\* an iteration recorded a worse raw objective than the incumbent's
C1_Witness ==
    /\ pc = "done"
    /\ \E r \in 2..its : f_store[r] > f_best_so_far[r - 1]
    /\ \E r \in 2..its : f_store[r] < f_best_so_far[r - 1]

\* C2 as stated: on a tie in the raw objective the prior incumbent's
\* coordinates and constraint vector are retained.
C2_TieRetainsIncumbent ==
    \A r \in 2..its :
        f_store[r] = f_best_so_far[r - 1] =>
            /\ x_best_so_far[r] = x_best_so_far[r - 1]
            /\ g_best_so_far[r] = g_best_so_far[r - 1]

\* C2 amended: the prior incumbent is retained only when the current best
\* vertex is strictly worse in raw objective; on a tie (and on an
\* improvement) the current best vertex and its constraint vector are taken.
C2_TieTakesCurrent ==
    \A r \in 2..its :
        /\ f_store[r] > f_best_so_far[r - 1] =>
              /\ x_best_so_far[r] = x_best_so_far[r - 1]
              /\ g_best_so_far[r] = g_best_so_far[r - 1]
        /\ f_store[r] <= f_best_so_far[r - 1] =>
              /\ x_best_so_far[r] = x_store[r]
              /\ g_best_so_far[r] = g_store[r]

\* a tie between a current best vertex and an incumbent at other coordinates
C2_Witness ==
    \E r \in 2..its :
        /\ f_store[r] = f_best_so_far[r - 1]
        /\ x_store[r] # x_best_so_far[r - 1]
        /\ g_store[r] # g_best_so_far[r - 1]

\* C3: the returned N_evals is the number of calls aug_obj received: d+1 for
\* the initial vertices, one per iteration for the reflection trial, one more
\* in every iteration that evaluates an expansion or a contraction trial.
C3_EvalsCountAugCalls ==
    /\ [](pc = "done" => output_dict.N_evals = aug_calls)
    /\ [](pc = "loop" /\ its = 0 => f_eval_count = d + 1 /\ aug_calls = d + 1)
    /\ [][IterStep =>
            /\ f_eval_count' - f_eval_count = aug_calls' - aug_calls
            /\ f_eval_count' - f_eval_count =
                  IF branch' \in {"expand", "contract"} THEN 2 ELSE 1]_vars

\* a returned run that rejected a contraction trial and kept an expansion trial
C3_Witness ==
    /\ pc = "done"
    /\ its >= 2
    /\ branch = "contract"
    /\ x_nodes[sorted_nodes[d + 1]] # x_contracted
    /\ x_expanded # << >>
    /\ output_dict.N_evals > d + 1 + its

\* C4 as stated: N_evals equals the number of calls the raw objective f
\* received during the run, the calls made for the trace included.
C4_EvalsCountAllObjectiveCalls ==
    pc = "done" => output_dict.N_evals = f_calls

\* C4 amended: N_evals counts the calls of f made through aug_obj only; the
\* one call per iteration that records f_store is not counted, so f receives
\* N_evals + max_iter calls.
C4_TraceCallsNotCounted ==
    pc = "done" =>
        /\ output_dict.N_evals = aug_calls
        /\ f_calls = output_dict.N_evals + max_iter

\* a returned run of at least one iteration
C4_Witness ==
    /\ pc = "done"
    /\ max_iter >= 1
    /\ f_calls > output_dict.N_evals

\* steps left before the call returns
StepsLeft ==
    (IF pc = "eval" THEN d + 1 - i ELSE 0)
      + (IF pc \in {"eval", "loop"} THEN max_iter - its + 1 ELSE 0)

\* the step the code takes next can be taken
CanStep ==
    \/ pc = "eval" /\ ENABLED (EvalNode \/ EvalRaise)
    \/ pc = "loop" /\ ~LoopRuns /\ ENABLED Return
    \/ LoopRuns /\ \E s \in SortedNodes :
          \/ Branch(s) = "reflect" /\ ENABLED IterReflectAt(s)
          \/ Branch(s) = "expand" /\ ENABLED IterExpandAt(s)
          \/ Branch(s) = "contract" /\ ENABLED IterContractAt(s)
          \/ Branch(s) = "raise" /\ ENABLED IterRaiseAt(s)

Probes(n) == [1..n -> { k * (Scale \div 2) : k \in -4..4 }]

\* x minimises the raw objective fn, constraints ignored
UnconstrainedMin(fn, x) ==
    /\ Defined(fn, x)
    /\ \A y \in Probes(Len(x)) :
          Defined(fn, y) => f_value(fn, x) <= f_value(fn, y)

Feasible(x) == \A k \in 1..con_d : g_value(constraints[k], x) <= 0

\* C6 as stated: when x0 is the unconstrained minimum of f and feasible,
\* f_best_so_far[0] equals f(x0), whatever simplex was drawn around x0.
C6_FirstBestIsObjectiveAtX0 ==
    (its >= 1 /\ Feasible(x0) /\ UnconstrainedMin(f, x0)) =>
        f_best_so_far[1] = f_value(f, x0)

\* C6 amended: x0 is not a vertex of the drawn simplex, so f_best_so_far[0]
\* is the raw (unpenalised) objective of the rank-0 drawn vertex, which is at
\* least f(x0); it equals f(x0) when that vertex attains the minimum, as when
\* the spread is zero and every vertex is x0.
C6_FirstBestIsObjectiveAtBestVertex ==
    (its >= 1 /\ Feasible(x0) /\ UnconstrainedMin(f, x0)) =>
        /\ f_best_so_far[1] = f_store[1]
        /\ f_best_so_far[1] = f_value(f, x_store[1])
        /\ x_best_so_far[1] = x_store[1]
        /\ \A j \in 1..d : \E z \in ZSamples :
              x_store[1][j] = x0[j] + f_range(bounds)[j] * z
        /\ f_best_so_far[1] >= f_value(f, x0)
        /\ x_store[1] = x0 => f_best_so_far[1] = f_value(f, x0)

\* x0 is the feasible minimum, the best drawn vertex is infeasible and worse
C6_Witness ==
    /\ its >= 1
    /\ Feasible(x0)
    /\ UnconstrainedMin(f, x0)
    /\ ~Feasible(x_store[1])
    /\ f_best_so_far[1] > f_value(f, x0)

\* C7 as stated: a reflected value v with best <= v < second-worst, v = best
\* included, replaces the worst vertex at the cost of one evaluation.
C7_ReflectionAcceptedFromBest ==
    [][(IterStep /\ f_nodes[sorted_nodes'[1]] <= f_reflected'
                 /\ f_reflected' < f_nodes[sorted_nodes'[d]]) =>
          /\ x_nodes'[sorted_nodes'[d + 1]] = x_reflected'
          /\ f_nodes'[sorted_nodes'[d + 1]] = f_reflected'
          /\ f_eval_count' = f_eval_count + 1]_vars

\* C7 amended: the reflected point replaces the worst vertex at the cost of
\* one evaluation exactly when best < v < second-worst; at v = best the
\* contraction arm runs instead and the iteration costs two evaluations.
C7_ReflectionAcceptedAboveBest ==
    [][IterStep =>
          /\ (f_nodes[sorted_nodes'[1]] < f_reflected'
                /\ f_reflected' < f_nodes[sorted_nodes'[d]]) =>
                /\ branch' = "reflect"
                /\ x_nodes'[sorted_nodes'[d + 1]] = x_reflected'
                /\ f_nodes'[sorted_nodes'[d + 1]] = f_reflected'
                /\ f_eval_count' = f_eval_count + 1
          /\ branch' = "reflect" =>
                /\ f_nodes[sorted_nodes'[1]] < f_reflected'
                /\ f_reflected' < f_nodes[sorted_nodes'[d]]
          /\ (f_nodes[sorted_nodes'[1]] = f_reflected'
                /\ f_reflected' < f_nodes[sorted_nodes'[d]]) =>
                /\ branch' = "contract"
                /\ f_eval_count' = f_eval_count + 2]_vars

\* an accepted reflection: the worst vertex is now the reflected point
C7_Witness ==
    /\ branch = "reflect"
    /\ x_nodes[sorted_nodes[d + 1]] = x_reflected
    /\ f_nodes[sorted_nodes[1]] < f_reflected
    /\ f_reflected < f_nodes[sorted_nodes[d]]

\* the simplex and its cache with the vertex ranked worst set to x, fx
WithWorst(x, fx) ==
    /\ x_nodes' = [x_nodes EXCEPT ![sorted_nodes'[d + 1]] = x]
    /\ f_nodes' = [f_nodes EXCEPT ![sorted_nodes'[d + 1]] = fx]

\* C8: an iteration that takes the contraction arm replaces the worst vertex
\* by the contracted point only when the contracted value is strictly below
\* the worst value; otherwise no vertex and no cached value changes; either
\* way the iteration adds 2 to the evaluation counter.
C8_ContractionOnlyOnStrictImprovement ==
    [][(IterStep /\ branch' = "contract") =>
          /\ f_eval_count' = f_eval_count + 2
          /\ x_contracted' = Contracted(centroid(sorted_nodes'), worst(sorted_nodes'))
          /\ f_contracted' = aug_obj(x_contracted')
          /\ IF f_contracted' < f_nodes[sorted_nodes'[d + 1]]
               THEN WithWorst(x_contracted', f_contracted')
               ELSE x_nodes' = x_nodes /\ f_nodes' = f_nodes]_vars

\* a contraction trial that tied with the worst value and was rejected
C8_Witness ==
    /\ branch = "contract"
    /\ its >= 1
    /\ f_contracted = f_nodes[sorted_nodes[d + 1]]
    /\ x_contracted # x_nodes[sorted_nodes[d + 1]]

MaxOf(seq) == CHOOSE v \in { seq[k] : k \in 1..Len(seq) } :
                  \A k \in 1..Len(seq) : seq[k] <= v

MinOf(seq) == CHOOSE v \in { seq[k] : k \in 1..Len(seq) } :
                  \A k \in 1..Len(seq) : v <= seq[k]

\* C9: at the start of every iteration and at return the simplex has d+1
\* vertices and f_nodes[k] is the augmented objective of x_nodes[k] for every
\* k; an iteration changes at most one vertex, the one ranked worst at its
\* start.
C9_CacheConsistent ==
    /\ [](pc \in {"loop", "done"} =>
            /\ Len(x_nodes) = d + 1
            /\ Len(f_nodes) = d + 1
            /\ \A k \in 1..(d + 1) :
                  /\ Len(x_nodes[k]) = d
                  /\ f_nodes[k] = aug_obj(x_nodes[k]))
    /\ [][IterStep =>
            /\ f_nodes[sorted_nodes'[d + 1]] = MaxOf(f_nodes)
            /\ \A k \in 1..(d + 1) :
                  k # sorted_nodes'[d + 1] =>
                      x_nodes'[k] = x_nodes[k] /\ f_nodes'[k] = f_nodes[k]]_vars

\* an expansion moved the worst vertex to a point with a new cached value
C9_Witness ==
    /\ pc = "loop"
    /\ branch = "expand"
    /\ x_nodes[sorted_nodes[d + 1]] = x_expanded
    /\ f_nodes[sorted_nodes[d + 1]] = f_expanded
    /\ f_expanded # f_reflected

\* C10: whenever an iteration replaces the worst vertex, the new cached value
\* is strictly below the one it replaces; so the least and the greatest
\* cached value never increase from one iteration to the next.
C10_ReplacementStrictlyLower ==
    [][IterStep =>
          /\ (x_nodes' # x_nodes \/ f_nodes' # f_nodes) =>
                f_nodes'[sorted_nodes'[d + 1]] < f_nodes[sorted_nodes'[d + 1]]
          /\ MinOf(f_nodes') <= MinOf(f_nodes)
          /\ MaxOf(f_nodes') <= MaxOf(f_nodes)]_vars

\* an accepted contraction lowered the greatest cached value
C10_Witness ==
    /\ branch = "contract"
    /\ x_nodes[sorted_nodes[d + 1]] = x_contracted
    /\ f_contracted = MaxOf(f_nodes)
    /\ f_contracted > MinOf(f_nodes)
    /\ d = 2

====
